---- MODULE Spec2Model ----
(***************************************************************************)
(* Bonding-curve pool of MyDreamStarter/Bc_contracts: pool creation        *)
(* (endpoints/new_pool.rs), buy (endpoints/swap_y.rs, lib.rs), sell        *)
(* (endpoints/swap_x.rs) and the curve arithmetic of models/bound.rs.      *)
(*                                                                         *)
(* Amounts held in accounts (u64) are kept as integers; every curve        *)
(* computation is carried out on wide naturals (u128 / U256 of the code),  *)
(* represented as little-endian sequences of base-10^4 limbs, so that the  *)
(* checked operations overflow exactly where the code's do.                *)
(***************************************************************************)
EXTENDS Integers, Sequences, FiniteSets, TLC

(***************************************************************************)
(* Wide unsigned integers (math kernel: U256, u128, CheckedMath).          *)
(***************************************************************************)
BASE == 10000

\* An int (0 <= n < 2^31) as a wide natural.
RECURSIVE Big(_)
Big(n) == IF n = 0 THEN <<>> ELSE <<n % BASE>> \o Big(n \div BASE)

\* Drop high-order zero limbs.
RECURSIVE Norm(_)
Norm(a) ==
  IF a = <<>> THEN <<>>
  ELSE IF a[Len(a)] = 0 THEN Norm(SubSeq(a, 1, Len(a) - 1)) ELSE a

\* -1, 0, 1 as a < b, a = b, a > b.
RECURSIVE CmpFrom(_, _, _)
CmpFrom(a, b, i) ==
  IF i = 0 THEN 0
  ELSE IF a[i] < b[i] THEN -1
  ELSE IF a[i] > b[i] THEN 1
  ELSE CmpFrom(a, b, i - 1)

Cmp(a, b) ==
  IF Len(a) < Len(b) THEN -1
  ELSE IF Len(a) > Len(b) THEN 1
  ELSE CmpFrom(a, b, Len(a))

Limb(a, i) == IF i <= Len(a) THEN a[i] ELSE 0

RECURSIVE AddFrom(_, _, _, _)
AddFrom(a, b, i, carry) ==
  IF i > Len(a) /\ i > Len(b)
  THEN IF carry = 0 THEN <<>> ELSE <<carry>>
  ELSE LET t == Limb(a, i) + Limb(b, i) + carry
       IN  <<t % BASE>> \o AddFrom(a, b, i + 1, t \div BASE)

Add(a, b) == AddFrom(a, b, 1, 0)

\* a - b for a >= b.
RECURSIVE SubFrom(_, _, _, _)
SubFrom(a, b, i, borrow) ==
  IF i > Len(a) THEN <<>>
  ELSE LET t == a[i] - Limb(b, i) - borrow
       IN  IF t < 0 THEN <<t + BASE>> \o SubFrom(a, b, i + 1, 1)
           ELSE <<t>> \o SubFrom(a, b, i + 1, 0)

Sub(a, b) == Norm(SubFrom(a, b, 1, 0))

\* a * k for 0 <= k <= BASE.
RECURSIVE MulSmallFrom(_, _, _, _)
MulSmallFrom(a, k, i, carry) ==
  IF i > Len(a)
  THEN IF carry = 0 THEN <<>> ELSE <<carry>>
  ELSE LET t == a[i] * k + carry
       IN  <<t % BASE>> \o MulSmallFrom(a, k, i + 1, t \div BASE)

MulSmall(a, k) == IF k = 0 THEN <<>> ELSE MulSmallFrom(a, k, 1, 0)

ShiftUp(a) == IF a = <<>> THEN <<>> ELSE <<0>> \o a

\* Multiplication limb by limb of b, from the high limb down.
RECURSIVE MulFrom(_, _, _, _)
MulFrom(a, b, i, acc) ==
  IF i = 0 THEN acc
  ELSE LET Go(acc2) == IF Len(acc2) >= 0 THEN MulFrom(a, b, i - 1, acc2) ELSE <<>>
       IN  Go(Add(MulSmall(a, b[i]), ShiftUp(acc)))

Mul(a, b) == IF a = <<>> \/ b = <<>> THEN <<>> ELSE MulFrom(a, b, Len(b), <<>>)

\* floor(a / k) for 0 < k <= BASE, from the high limb down.
RECURSIVE DivSmallFrom(_, _, _, _)
DivSmallFrom(a, k, i, rem) ==
  IF i = 0 THEN <<>>
  ELSE LET t == rem * BASE + a[i]
       IN  DivSmallFrom(a, k, i - 1, t % k) \o <<t \div k>>

DivSmall(a, k) == Norm(DivSmallFrom(a, k, Len(a), 0))

\* Largest q <= qhi with b * q <= r.
RECURSIVE QuotDigit(_, _, _)
QuotDigit(r, b, q) ==
  IF q = 0 THEN 0
  ELSE IF Cmp(MulSmall(b, q), r) <= 0 THEN q ELSE QuotDigit(r, b, q - 1)

RECURSIVE DivLoop(_, _, _, _, _)
\* The division continued below limb i with remainder r2 and quotient acc2.
DivNext(a, b, i, r2, acc2) ==
  IF Len(r2) >= 0 /\ Len(acc2) >= 0 THEN DivLoop(a, b, i - 1, r2, acc2) ELSE <<>>

\* The remainder and the quotient limbs once the digit q is known.
DivTake(a, b, i, acc, r1, q) ==
  DivNext(a, b, i, IF q = 0 THEN r1 ELSE Sub(r1, MulSmall(b, q)), <<q>> \o acc)

\* The digit for the running remainder r1: an estimate qh from the top
\* limbs, lowered to the digit by QuotDigit.
DivDigit(a, b, i, acc, r1) ==
  LET n  == Len(b)
      rt == IF Len(r1) > n THEN r1[n + 1] * BASE + r1[n]
            ELSE IF Len(r1) = n THEN r1[n] ELSE 0
      qh == IF Cmp(r1, b) < 0 THEN 0
            ELSE IF rt \div b[n] >= BASE THEN BASE - 1 ELSE rt \div b[n]
  IN  DivTake(a, b, i, acc, r1, QuotDigit(r1, b, qh))

\* Schoolbook long division of a by b (b's top limb >= BASE/2), high limb
\* first; r is the running remainder, acc the quotient limbs found so far.
DivLoop(a, b, i, r, acc) ==
  IF i = 0 THEN acc ELSE DivDigit(a, b, i, acc, Norm(<<a[i]>> \o r))

\* Long division of the scaled operands.
DivScaled(a1, b1) ==
  IF Len(a1) >= 0 /\ Len(b1) >= 0
  THEN Norm(DivLoop(a1, b1, Len(a1), <<>>, <<>>)) ELSE <<>>

\* floor(a / b) for b > 0: both are scaled by f so that the divisor's top
\* limb is at least BASE/2.
Div(a, b) ==
  IF Cmp(a, b) < 0 THEN <<>>
  ELSE LET f == BASE \div (b[Len(b)] + 1)
       IN  DivScaled(MulSmall(a, f), MulSmall(b, f))

\* floor(sqrt(t)) for an int t.
RECURSIVE IntSqrtFrom(_, _)
IntSqrtFrom(t, x) ==
  LET y == (x + t \div x) \div 2
  IN  IF y >= x THEN x ELSE IntSqrtFrom(t, y)

IntSqrt(t) == IF t = 0 THEN 0 ELSE IntSqrtFrom(t, t)

RECURSIVE ShiftUpBy(_, _)
ShiftUpBy(a, k) == IF k = 0 THEN a ELSE ShiftUpBy(ShiftUp(a), k - 1)

\* Largest x in lo..hi with (d + x) * x <= r, given that lo qualifies.
RECURSIVE RootDigit(_, _, _, _)
RootDigit(r, d, lo, hi) ==
  IF lo >= hi THEN lo
  ELSE LET mid == (lo + hi + 1) \div 2
       IN  IF Cmp(MulSmall(Add(d, Big(mid)), mid), r) <= 0
           THEN RootDigit(r, d, mid, hi)
           ELSE RootDigit(r, d, lo, mid - 1)

RECURSIVE SqrtLoop(_, _, _, _)
\* The square root continued below the pair at i with remainder r2.
SqrtNext(a, i, r2, root2) ==
  IF Len(r2) >= 0 /\ Len(root2) >= 0 THEN SqrtLoop(a, i - 2, r2, root2) ELSE <<>>

\* The remainder and the root limbs once the digit x is known.
SqrtTake(a, i, root, r1, d, x) ==
  SqrtNext(a, i, Sub(r1, MulSmall(Add(d, Big(x)), x)),
           IF root = <<>> /\ x = 0 THEN <<>> ELSE <<x>> \o root)

\* The digit for the running remainder r1 and d = 2 * root * BASE: bounds
\* lo..hi from the top limbs, narrowed to the digit by RootDigit.
SqrtDigit(a, i, root, r1, d) ==
  LET n  == Len(d)
      wide == n >= 2 /\ d[n] < 20
      dt == IF n = 0 THEN 1
            ELSE IF wide THEN d[n] * BASE + d[n - 1] ELSE d[n]
      lowest == IF n = 0 THEN 1 ELSE IF wide THEN n - 1 ELSE n
      rt == Limb(r1, lowest)
            + BASE * Limb(r1, lowest + 1)
            + BASE * BASE * Limb(r1, lowest + 2)
      hi == IF n = 0 THEN IntSqrt(rt)
            ELSE IF rt \div dt >= BASE THEN BASE - 1 ELSE rt \div dt
      l0 == IF n = 0 THEN hi ELSE rt \div (dt + 2)
  IN  SqrtTake(a, i, root, r1, d,
               RootDigit(r1, d,
                         IF l0 <= hi /\ Cmp(MulSmall(Add(d, Big(l0)), l0), r1) <= 0
                         THEN l0 ELSE 0,
                         hi))

\* Longhand square root of a, two limbs at a time from the top; i is the
\* low limb of the pair, r the running remainder, root the limbs found.
SqrtLoop(a, i, r, root) ==
  IF i < 1 THEN root
  ELSE SqrtDigit(a, i, root,
                 Norm(<<a[i], Limb(a, i + 1)>> \o r), ShiftUp(MulSmall(root, 2)))

\* The root of the scaled operand a = n * f * f, scaled back by f.
SqrtRoot(f, a) ==
  LET La == Len(a)
      Unscale(root) == IF f <= 1 THEN root ELSE DivSmall(root, f)
  IN  Unscale(SqrtLoop(a, IF La % 2 = 1 THEN La ELSE La - 1, <<>>, <<>>))

\* floor(sqrt(n)); zero for zero.  n is first scaled by f * f so that the
\* root's top limb is large, which keeps the digit estimates tight:
\* floor(sqrt(n)) = floor(floor(sqrt(n * f * f)) / f).
Sqrt(n) ==
  IF n = <<>> THEN <<>>
  ELSE LET L   == Len(n)
           top == IF L % 2 = 1 THEN n[L] ELSE n[L] * BASE + n[L - 1]
           f   == BASE \div (IntSqrt(top) + 1)
       IN  SqrtRoot(f, IF f <= 1 THEN n ELSE MulSmall(MulSmall(n, f), f))

RECURSIVE PowFrom(_, _, _)
PowFrom(a, k, acc) ==
  IF k = 0 THEN acc
  ELSE LET Go(acc2) == IF Len(acc2) >= 0 THEN PowFrom(a, k - 1, acc2) ELSE <<>>
       IN  Go(Mul(acc, a))

Pow(a, k) == PowFrom(a, k, <<1>>)

\* Number of decimal digits of a limb value.
RECURSIVE IntDigits(_)
IntDigits(n) == IF n < 10 THEN 1 ELSE 1 + IntDigits(n \div 10)

\* Number of decimal digits of a wide natural (1 for zero).
Digits(a) == IF a = <<>> THEN 1 ELSE 4 * (Len(a) - 1) + IntDigits(a[Len(a)])

TWO16  == <<5536, 6>>
U64MAX  == Sub(Pow(TWO16, 4), <<1>>)
U128MAX == Sub(Pow(TWO16, 8), <<1>>)
U256MAX == Sub(Pow(TWO16, 16), <<1>>)
INTMAX  == 2147483647

\* a mod m.
Mod(a, m) == Sub(a, Mul(Div(a, m), m))

\* `x as u64`: the low 64 bits.
AsU64(a) == IF Cmp(a, U64MAX) <= 0 THEN a ELSE Mod(a, Add(U64MAX, <<1>>))

\* A u64 amount back as an integer of the model.  Amounts above INTMAX
\* exceed every reserve of the model and are kept as INTMAX.
ToInt(a) ==
  IF Cmp(a, Big(INTMAX)) >= 0 THEN INTMAX
  ELSE Limb(a, 1) + BASE * Limb(a, 2) + BASE * BASE * Limb(a, 3)

(***************************************************************************)
(* Checked arithmetic: the absent value NONE stands for Option::None, and  *)
(* every operation passes an absent operand on.  max is the width of the   *)
(* type the operation is performed in (U128MAX or U256MAX).                *)
(***************************************************************************)
NONE  == <<-1>>
PANIC == <<-2>>

checked_mul(max, a, b) ==
  IF a = NONE \/ b = NONE THEN NONE
  ELSE LET Fit(p) == IF Cmp(p, max) > 0 THEN NONE ELSE p IN Fit(Mul(a, b))

checked_add(max, a, b) ==
  IF a = NONE \/ b = NONE THEN NONE
  ELSE LET Fit(p) == IF Cmp(p, max) > 0 THEN NONE ELSE p IN Fit(Add(a, b))

checked_sub(a, b) ==
  IF a = NONE \/ b = NONE THEN NONE
  ELSE IF Cmp(a, b) < 0 THEN NONE ELSE Sub(a, b)

checked_div(a, b) ==
  IF a = NONE \/ b = NONE \/ b = <<>> THEN NONE ELSE Div(a, b)

checked_pow2(max, a) == checked_mul(max, a, a)

checked_sqrt(a) == IF a = NONE THEN NONE ELSE Sqrt(a)

\* Product of a list of factors in 256-bit width.
RECURSIVE checked_product(_, _, _)
checked_product(fs, i, acc) ==
  IF i > Len(fs) THEN acc
  ELSE LET Go(acc2) == IF Len(acc2) >= 0 THEN checked_product(fs, i + 1, acc2) ELSE NONE
       IN  Go(checked_mul(U256MAX, acc, fs[i]))

\* floor(product(nums) / product(denoms)), absent on overflow or a zero
\* divisor.
multiply_divide(nums, denoms) ==
  checked_div(checked_product(nums, 1, <<1>>), checked_product(denoms, 1, <<1>>))

(***************************************************************************)
(* Curve solvers (models/bound.rs).                                        *)
(***************************************************************************)
DECIMALS_S == Big(1000000000)

delta_m1_strategy(alpha_abs, beta, alpha_decimals, beta_decimals, s_a, s_b) ==
  checked_sub(
    \* left = left_num / left_denom
    checked_div(checked_mul(U128MAX, checked_sub(s_b, s_a), beta),
                checked_mul(U128MAX, beta_decimals, DECIMALS_S)),
    \* right
    checked_div(
      checked_div(
        checked_mul(U128MAX,
          checked_sub(checked_pow2(U128MAX, s_b), checked_pow2(U128MAX, s_a)),
          alpha_abs),
        checked_pow2(U128MAX, DECIMALS_S)),
      MulSmall(alpha_decimals, 2)))

delta_m2_strategy(alpha_abs, beta, alpha_decimals, beta_decimals, s_a, s_b) ==
  checked_div(
    checked_sub(
      \* left
      checked_mul(U128MAX,
        checked_mul(U128MAX,
          checked_mul(U128MAX, MulSmall(beta, 2), DECIMALS_S),
          alpha_decimals),
        Sub(s_b, s_a)),
      \* right
      checked_mul(U128MAX,
        checked_mul(U128MAX, alpha_abs, beta_decimals),
        checked_sub(checked_pow2(U128MAX, s_b), checked_pow2(U128MAX, s_a)))),
    \* denom
    checked_mul(U128MAX,
      checked_mul(U128MAX, MulSmall(alpha_decimals, 2), beta_decimals),
      checked_pow2(U128MAX, DECIMALS_S)))

\* One attempt of compute_a at a scale:
\* result = sqrt(left + right) * sqrt(scale), absent on overflow.
compute_a_result(u, alpha_decimals, w, v, scale) ==
  checked_mul(U256MAX,
    checked_sqrt(
      checked_add(U256MAX,
        checked_mul(U256MAX,
          checked_mul(U256MAX, checked_div(u, scale), u), alpha_decimals),
        checked_mul(U256MAX,
          checked_mul(U256MAX, checked_div(v, scale), v), w))),
    Sqrt(scale))

\* An inverse solver kernel that would give up after its first attempt.
compute_a_without_retry(u, alpha_decimals, w, v, scale) ==
  compute_a_result(u, alpha_decimals, w, v, scale)

\* The scale retry of the inverse solver: PANIC when scale * 100 leaves
\* 256 bits (the unwrap of line 490).
RECURSIVE compute_a(_, _, _, _, _)
compute_a(u, alpha_decimals, w, v, scale) ==
  LET Retry(result, next) ==
        IF result # NONE THEN result
        ELSE IF next = NONE THEN PANIC
        ELSE compute_a(u, alpha_decimals, w, v, next)
  IN  Retry(compute_a_result(u, alpha_decimals, w, v, scale),
            checked_mul(U256MAX, scale, <<100>>))

\* The value of the inverse solver from its roots: an absent root or
\* difference is None, a value beyond u128 panics (`as_u128`).
delta_s_value(alpha_abs, alpha_decimals, u, v, a, b) ==
  LET decimals_s == DECIMALS_S
      Narrow(value) ==
        IF value = NONE THEN NONE
        ELSE IF Cmp(value, U128MAX) > 0 THEN PANIC
        ELSE value
  IN  IF a = PANIC THEN PANIC
      ELSE IF a = NONE THEN NONE
      ELSE IF b = NONE THEN NONE
      ELSE Narrow(checked_sub(
                    multiply_divide(<<decimals_s, alpha_decimals, a, v>>,
                                    <<<<2>>, alpha_abs, b, v>>),
                    multiply_divide(<<decimals_s, alpha_decimals, u, b>>,
                                    <<<<2>>, alpha_abs, b, v>>)))

\* The roots a and b of the inverse solver for the terms u, v and w.
delta_s_roots(alpha_abs, alpha_decimals, u, v, w) ==
  IF u = NONE THEN NONE
  ELSE IF v = NONE THEN NONE
  ELSE IF w = NONE THEN NONE
  ELSE delta_s_value(alpha_abs, alpha_decimals, u, v,
         compute_a(u, alpha_decimals, w, v, <<1>>),
         checked_sqrt(checked_mul(U256MAX, checked_pow2(U256MAX, v), alpha_decimals)))

\* The term u of the inverse solver.
delta_s_u(alpha_abs, beta, alpha_decimals, beta_decimals, s_b) ==
  checked_sub(
    checked_mul(U256MAX,
      checked_mul(U256MAX,
        checked_mul(U256MAX, <<2>>, beta), alpha_decimals), DECIMALS_S),
    checked_mul(U256MAX,
      checked_mul(U256MAX,
        checked_mul(U256MAX, <<2>>, alpha_abs), s_b), beta_decimals))

\* The term v of the inverse solver.
delta_s_v(alpha_decimals, beta_decimals) ==
  checked_mul(U256MAX,
    checked_mul(U256MAX, alpha_decimals, beta_decimals), DECIMALS_S)

\* The term w of the inverse solver.
delta_s_w(alpha_abs, delta_m) ==
  checked_mul(U256MAX, checked_mul(U256MAX, <<8>>, delta_m), alpha_abs)

delta_s_strategy(alpha_abs, beta, alpha_decimals, beta_decimals, s_b, delta_m) ==
  delta_s_roots(alpha_abs, alpha_decimals,
                delta_s_u(alpha_abs, beta, alpha_decimals, beta_decimals, s_b),
                delta_s_v(alpha_decimals, beta_decimals),
                delta_s_w(alpha_abs, delta_m))

\* `value as u64` of a solver result.
SolverValue(r) == ToInt(AsU64(r))

\* A forward solver that would try the fallback strategy first.
compute_delta_m_fallback_first(config, s_a, s_b) ==
  LET Result(r) ==
        IF r # NONE THEN [status |-> "Ok", value |-> SolverValue(r)]
        ELSE [status |-> "MathOverflow", value |-> 0]
      OrElse(primary, fallback) ==
        IF primary.status = "Ok" THEN primary ELSE fallback
  IN  OrElse(Result(delta_m2_strategy(config.alpha_abs, config.beta,
                      config.decimals.alpha, config.decimals.beta, Big(s_a), Big(s_b))),
             Result(delta_m1_strategy(config.alpha_abs, config.beta,
                      config.decimals.alpha, config.decimals.beta, Big(s_a), Big(s_b))))

\* A forward solver that would narrow its result to 16 bits.
compute_delta_m_as_u16(config, s_a, s_b) ==
  LET Result(r) ==
        IF r # NONE THEN [status |-> "Ok", value |-> SolverValue(r) % 65536]
        ELSE [status |-> "MathOverflow", value |-> 0]
      OrElse(primary, fallback) ==
        IF primary.status = "Ok" THEN primary ELSE fallback
  IN  OrElse(Result(delta_m1_strategy(config.alpha_abs, config.beta,
                      config.decimals.alpha, config.decimals.beta, Big(s_a), Big(s_b))),
             Result(delta_m2_strategy(config.alpha_abs, config.beta,
                      config.decimals.alpha, config.decimals.beta, Big(s_a), Big(s_b))))

\* BoundPool::compute_delta_m: primary strategy, then the fallback.
compute_delta_m(config, s_a, s_b) ==
  LET Result(r) ==
        IF r # NONE THEN [status |-> "Ok", value |-> SolverValue(r)]
        ELSE [status |-> "MathOverflow", value |-> 0]
      OrElse(primary, fallback) ==
        IF primary.status = "Ok" THEN primary ELSE fallback
  IN  OrElse(Result(delta_m1_strategy(config.alpha_abs, config.beta,
                      config.decimals.alpha, config.decimals.beta, Big(s_a), Big(s_b))),
             Result(delta_m2_strategy(config.alpha_abs, config.beta,
                      config.decimals.alpha, config.decimals.beta, Big(s_a), Big(s_b))))

\* An inverse solver that would narrow its result to 16 bits.
compute_delta_s_as_u16(config, s_b, delta_m) ==
  LET Result(r) ==
        IF r = PANIC THEN [status |-> "Panic", value |-> 0]
        ELSE IF r = NONE THEN [status |-> "MathOverflow", value |-> 0]
        ELSE [status |-> "Ok", value |-> SolverValue(r) % 65536]
  IN  Result(delta_s_strategy(config.alpha_abs, config.beta,
               config.decimals.alpha, config.decimals.beta, Big(s_b), Big(delta_m)))

\* BoundPool::compute_delta_s.
compute_delta_s(config, s_b, delta_m) ==
  LET Result(r) ==
        IF r = PANIC THEN [status |-> "Panic", value |-> 0]
        ELSE IF r = NONE THEN [status |-> "MathOverflow", value |-> 0]
        ELSE [status |-> "Ok", value |-> SolverValue(r)]
  IN  Result(delta_s_strategy(config.alpha_abs, config.beta,
               config.decimals.alpha, config.decimals.beta, Big(s_b), Big(delta_m)))

(***************************************************************************)
(* Curve parameter derivation (models/bound.rs).                           *)
(***************************************************************************)
\* omega_m * price_factor_num / price_factor_denom, unwrapped: PANIC when
\* the denominator is zero.
PriceFactorOf(omega_m, price_factor_num, price_factor_denom) ==
  LET Unwrap(r) == IF r = NONE THEN PANIC ELSE r
  IN  Unwrap(checked_div(checked_mul(U128MAX, omega_m, Big(price_factor_num)),
                         Big(price_factor_denom)))

\* A slope check that would accept the horizontal curve.
check_slope_strict(gamma_m, omega_m, price_factor_num, price_factor_denom) ==
  LET Slope(pfo) ==
        IF pfo = PANIC THEN "Panic"
        ELSE IF Cmp(pfo, gamma_m) > 0 THEN "BondingCurveMustBeNegativelySloped"
        ELSE "Ok"
  IN  Slope(PriceFactorOf(omega_m, price_factor_num, price_factor_denom))

check_slope(gamma_m, omega_m, price_factor_num, price_factor_denom) ==
  LET Slope(pfo) ==
        IF pfo = PANIC THEN "Panic"
        ELSE IF Cmp(pfo, gamma_m) >= 0 THEN "BondingCurveMustBeNegativelySloped"
        ELSE "Ok"
  IN  Slope(PriceFactorOf(omega_m, price_factor_num, price_factor_denom))

\* An intercept check with its comparison turned around.
check_intercept_reversed(gamma_m, omega_m, price_factor_num, price_factor_denom) ==
  LET Intercept(omp) ==
        IF omp = PANIC THEN "Panic"
        ELSE IF Cmp(MulSmall(gamma_m, 2), omp) >= 0
             THEN "BondingCurveInterceptMustBePositive"
        ELSE "Ok"
  IN  Intercept(PriceFactorOf(omega_m, price_factor_num, price_factor_denom))

\* An intercept check that would double the price-factored omega_m instead
\* of gamma_m.
check_intercept_doubling_omp(gamma_m, omega_m, price_factor_num, price_factor_denom) ==
  LET Intercept(omp) ==
        IF omp = PANIC THEN "Panic"
        ELSE IF Cmp(gamma_m, MulSmall(omp, 2)) <= 0
             THEN "BondingCurveInterceptMustBePositive"
        ELSE "Ok"
  IN  Intercept(PriceFactorOf(omega_m, price_factor_num, price_factor_denom))

check_intercept(gamma_m, omega_m, price_factor_num, price_factor_denom) ==
  LET Intercept(omp) ==
        IF omp = PANIC THEN "Panic"
        ELSE IF Cmp(MulSmall(gamma_m, 2), omp) <= 0
             THEN "BondingCurveInterceptMustBePositive"
        ELSE "Ok"
  IN  Intercept(PriceFactorOf(omega_m, price_factor_num, price_factor_denom))

compute_scale(num) == Digits(num)

\* A precision table that would be one row off.
compute_decimals_shifted(scale) ==
  IF scale <= 4 THEN NONE
  ELSE IF scale >= 12 THEN Big(1)
  ELSE Pow(<<10>>, 12 - scale)

\* The precision table; NONE for EScaleTooLow.
compute_decimals(scale) ==
  IF scale <= 4 THEN NONE
  ELSE IF scale = 5 THEN Big(100000000)
  ELSE IF scale = 6 THEN Big(10000000)
  ELSE IF scale = 7 THEN Big(1000000)
  ELSE IF scale = 8 THEN Big(100000)
  ELSE IF scale = 9 THEN Big(10000)
  ELSE IF scale = 10 THEN Big(1000)
  ELSE IF scale = 11 THEN Big(100)
  ELSE IF scale = 12 THEN Big(10)
  ELSE Big(1)

NoCurve == [status |-> "Ok", alpha_abs |-> <<>>, decimals |-> <<>>]

\* alpha_abs = num * alpha_decimals / denom, narrowed to u128 by an unwrap.
alpha_scaled(num, denom, alpha_decimals) ==
  LET Narrow(alpha_abs) ==
        IF Cmp(alpha_abs, U128MAX) > 0 THEN [NoCurve EXCEPT !.status = "Panic"]
        ELSE [status    |-> "Ok",
              alpha_abs |-> alpha_abs,
              decimals  |-> alpha_decimals]
  IN  IF alpha_decimals = NONE THEN [NoCurve EXCEPT !.status = "EScaleTooLow"]
      ELSE IF denom = <<>> THEN [NoCurve EXCEPT !.status = "Panic"]
      ELSE Narrow(Div(Mul(num, alpha_decimals), denom))

\* The slope from its numerator and denominator: the relative limit of
\* gamma_s, the narrowing of both to u128, and the precision of their ratio.
alpha_ratio(num, denom) ==
  IF Cmp(num, denom) <= 0
  THEN [NoCurve EXCEPT !.status = "EGammaSAboveRelativeLimit"]
  ELSE IF Cmp(num, U128MAX) > 0 \/ Cmp(denom, U128MAX) > 0
       THEN [NoCurve EXCEPT !.status = "Panic"]
  ELSE alpha_scaled(num, denom,
                    compute_decimals(compute_scale(num) - compute_scale(denom)))

compute_alpha_abs(gamma_s, gamma_s_denom, gamma_m, omega_m, price_factor_num, price_factor_denom) ==
  LET Slope(slope, curve) ==
        IF slope # "Ok" THEN [NoCurve EXCEPT !.status = slope] ELSE curve
  IN  Slope(check_slope(gamma_m, omega_m, price_factor_num, price_factor_denom),
            alpha_ratio(
              \* num = 2 * (gamma_m - left) * gamma_s_denom^2
              Mul(MulSmall(Sub(gamma_m,
                               PriceFactorOf(omega_m, price_factor_num, price_factor_denom)),
                           2),
                  Mul(gamma_s_denom, gamma_s_denom)),
              \* denom = gamma_s^2
              Mul(gamma_s, gamma_s)))

compute_beta(gamma_s, gamma_s_denom, gamma_m, omega_m, price_factor_num, price_factor_denom, beta_decimals) ==
  LET denom == gamma_s
      Intercept(intercept, beta) ==
        IF intercept # "Ok" THEN [status |-> intercept, beta |-> <<>>]
        ELSE IF denom = <<>> THEN [status |-> "Panic", beta |-> <<>>]
        ELSE [status |-> "Ok", beta |-> beta]
  IN  Intercept(check_intercept(gamma_m, omega_m, price_factor_num, price_factor_denom),
                Div(Mul(Mul(Sub(MulSmall(gamma_m, 2),
                                PriceFactorOf(omega_m, price_factor_num,
                                              price_factor_denom)),
                            gamma_s_denom),
                        beta_decimals),
                    denom))

(***************************************************************************)
(* Fees (models/fees.rs) and swap amounts (models/bound.rs).               *)
(***************************************************************************)
FEE_PRECISION == 10000

\* floor(amount * percent / FEE_PRECISION), without leaving the integers.
get_fee_amount(amount, percent) ==
  (amount \div FEE_PRECISION) * percent
    + ((amount % FEE_PRECISION) * percent) \div FEE_PRECISION

get_fee_meme_amount(fees, amount)  == get_fee_amount(amount, fees.fee_meme_percent)
get_fee_quote_amount(fees, amount) == get_fee_amount(amount, fees.fee_quote_percent)

Min(a, b) == IF a <= b THEN a ELSE b

NoAmount == [amount_in |-> 0, amount_out |-> 0, admin_fee_in |-> 0, admin_fee_out |-> 0]

\* The outcome of a swap computation: status is "Ok", the AmmError raised,
\* or "Panic" (arithmetic overflow); solver tells whether compute_delta_m /
\* compute_delta_s was called.
Outcome(status, solver, amt) == [status |-> status, solver |-> solver, amt |-> amt]

\* How the curve solver of a swap ended, "NotCalled" when it was not invoked.
Solver(is_max, solved) == IF is_max THEN "NotCalled" ELSE solved.status

\* A buy that would leave the net input unclamped.
buy_meme_swap_amounts_unclamped(p, delta_s, min_delta_m) ==
  LET m_t0 == p.meme_reserve
      s_t0 == p.quote_reserve
      max_delta_s  == p.config.gamma_s - s_t0
      admin_fee_in == get_fee_quote_amount(p.fees, delta_s)
      is_max       == delta_s - admin_fee_in >= max_delta_s
      net_delta_s  == delta_s - admin_fee_in
      Solved(solved) ==
        LET delta_m       == IF is_max THEN m_t0 ELSE solved.value
            admin_fee_out == get_fee_meme_amount(p.fees, delta_m)
            net_delta_m   == delta_m - admin_fee_out
            amt == [amount_in     |-> net_delta_s,
                    amount_out    |-> net_delta_m,
                    admin_fee_in  |-> admin_fee_in,
                    admin_fee_out |-> admin_fee_out]
        IN  IF ~is_max /\ solved.status # "Ok"
            THEN Outcome(solved.status, solved.status, NoAmount)
            ELSE IF net_delta_m < 0
            THEN Outcome("Panic", Solver(is_max, solved), NoAmount)
            ELSE IF net_delta_m < min_delta_m
            THEN Outcome("SlippageExceeded", Solver(is_max, solved), amt)
            ELSE Outcome("Ok", Solver(is_max, solved), amt)
  IN  IF max_delta_s < 0 \/ delta_s - admin_fee_in < 0
      THEN Outcome("Panic", "NotCalled", NoAmount)
      ELSE Solved(compute_delta_m(p.config, s_t0, s_t0 + net_delta_s))

\* A buy that would run the forward solver on the clamped input as well.
buy_meme_swap_amounts_always_solving(p, delta_s, min_delta_m) ==
  LET m_t0 == p.meme_reserve
      s_t0 == p.quote_reserve
      max_delta_s  == p.config.gamma_s - s_t0
      admin_fee_in == get_fee_quote_amount(p.fees, delta_s)
      is_max       == delta_s - admin_fee_in >= max_delta_s
      net_delta_s  == Min(delta_s - admin_fee_in, max_delta_s)
      Solved(solved) ==
        LET delta_m       == IF is_max /\ solved.status # "Ok" THEN m_t0 ELSE solved.value
            admin_fee_out == get_fee_meme_amount(p.fees, delta_m)
            net_delta_m   == delta_m - admin_fee_out
            amt == [amount_in     |-> net_delta_s,
                    amount_out    |-> net_delta_m,
                    admin_fee_in  |-> admin_fee_in,
                    admin_fee_out |-> admin_fee_out]
        IN  IF ~is_max /\ solved.status # "Ok"
            THEN Outcome(solved.status, solved.status, NoAmount)
            ELSE IF net_delta_m < 0
            THEN Outcome("Panic", Solver(is_max, solved), NoAmount)
            ELSE IF net_delta_m < min_delta_m
            THEN Outcome("SlippageExceeded", solved.status, amt)
            ELSE Outcome("Ok", solved.status, amt)
  IN  IF max_delta_s < 0 \/ delta_s - admin_fee_in < 0
      THEN Outcome("Panic", "NotCalled", NoAmount)
      ELSE Solved(compute_delta_m(p.config, s_t0, s_t0 + net_delta_s))

buy_meme_swap_amounts(p, delta_s, min_delta_m) ==
  LET m_t0 == p.meme_reserve
      s_t0 == p.quote_reserve
      max_delta_s  == p.config.gamma_s - s_t0
      admin_fee_in == get_fee_quote_amount(p.fees, delta_s)
      is_max       == delta_s - admin_fee_in >= max_delta_s
      net_delta_s  == Min(delta_s - admin_fee_in, max_delta_s)
      Solved(solved) ==
        LET delta_m       == IF is_max THEN m_t0 ELSE solved.value
            admin_fee_out == get_fee_meme_amount(p.fees, delta_m)
            net_delta_m   == delta_m - admin_fee_out
            amt == [amount_in     |-> net_delta_s,
                    amount_out    |-> net_delta_m,
                    admin_fee_in  |-> admin_fee_in,
                    admin_fee_out |-> admin_fee_out]
        IN  IF ~is_max /\ solved.status # "Ok"
            THEN Outcome(solved.status, solved.status, NoAmount)
            ELSE IF net_delta_m < 0
            THEN Outcome("Panic", Solver(is_max, solved), NoAmount)
            ELSE IF net_delta_m < min_delta_m
            THEN Outcome("SlippageExceeded", Solver(is_max, solved), amt)
            ELSE Outcome("Ok", Solver(is_max, solved), amt)
  IN  IF max_delta_s < 0 \/ delta_s - admin_fee_in < 0
      THEN Outcome("Panic", "NotCalled", NoAmount)
      ELSE Solved(compute_delta_m(p.config, s_t0, s_t0 + net_delta_s))

\* A sell that would charge each fee once, as a buy does.
sell_meme_swap_amounts_single_fee(p, delta_m, min_delta_s) ==
  LET m_b == p.meme_reserve
      s_b == p.quote_reserve
      max_delta_m  == p.config.gamma_m - m_b
      admin_fee_in == get_fee_meme_amount(p.fees, delta_m)
      is_max       == delta_m - admin_fee_in >= max_delta_m
      net_delta_m  == Min(delta_m - admin_fee_in, max_delta_m)
      Solved(solved) ==
        LET delta_s       == IF is_max THEN s_b ELSE solved.value
            admin_fee_out == get_fee_quote_amount(p.fees, delta_s)
            net_delta_s   == delta_s - admin_fee_out
            amt == [amount_in     |-> net_delta_m,
                    amount_out    |-> net_delta_s,
                    admin_fee_in  |-> admin_fee_in,
                    admin_fee_out |-> admin_fee_out]
        IN  IF ~is_max /\ solved.status # "Ok"
            THEN Outcome(solved.status, solved.status, NoAmount)
            ELSE IF net_delta_s < 0
            THEN Outcome("Panic", Solver(is_max, solved), NoAmount)
            ELSE IF net_delta_s < min_delta_s
            THEN Outcome("SlippageExceeded", Solver(is_max, solved), amt)
            ELSE Outcome("Ok", Solver(is_max, solved), amt)
  IN  IF max_delta_m < 0 \/ delta_m - admin_fee_in < 0
      THEN Outcome("Panic", "NotCalled", NoAmount)
      ELSE Solved(compute_delta_s(p.config, s_b, net_delta_m))

sell_meme_swap_amounts(p, delta_m, min_delta_s) ==
  LET m_b == p.meme_reserve
      s_b == p.quote_reserve
      max_delta_m  == p.config.gamma_m - m_b
      admin_fee_in == get_fee_meme_amount(p.fees, delta_m) * 2
      is_max       == delta_m - admin_fee_in >= max_delta_m
      net_delta_m  == Min(delta_m - admin_fee_in, max_delta_m)
      Solved(solved) ==
        LET delta_s       == IF is_max THEN s_b ELSE solved.value
            admin_fee_out == get_fee_quote_amount(p.fees, delta_s) * 2
            net_delta_s   == delta_s - admin_fee_out
            amt == [amount_in     |-> net_delta_m,
                    amount_out    |-> net_delta_s,
                    admin_fee_in  |-> admin_fee_in,
                    admin_fee_out |-> admin_fee_out]
        IN  IF ~is_max /\ solved.status # "Ok"
            THEN Outcome(solved.status, solved.status, NoAmount)
            ELSE IF net_delta_s < 0
            THEN Outcome("Panic", Solver(is_max, solved), NoAmount)
            ELSE IF net_delta_s < min_delta_s
            THEN Outcome("SlippageExceeded", Solver(is_max, solved), amt)
            ELSE Outcome("Ok", Solver(is_max, solved), amt)
  IN  IF max_delta_m < 0 \/ delta_m - admin_fee_in < 0
      THEN Outcome("Panic", "NotCalled", NoAmount)
      ELSE Solved(compute_delta_s(p.config, s_b, net_delta_m))

\* Swap amounts that would fall back to the default SwapAmount on an error.
swap_amounts_or_default(p, coin_in_amount, coin_out_min_value, buy_meme) ==
  LET Recover(computed) ==
        IF computed.status = "Ok" THEN computed
        ELSE Outcome("Ok", computed.solver, NoAmount)
  IN  Recover(IF buy_meme
              THEN buy_meme_swap_amounts(p, coin_in_amount, coin_out_min_value)
              ELSE sell_meme_swap_amounts(p, coin_in_amount, coin_out_min_value))

\* BoundPool::swap_amounts: the Result of either direction is unwrapped, so
\* every error of the computation leaves as a panic of the caller.
swap_amounts(p, coin_in_amount, coin_out_min_value, buy_meme) ==
  IF buy_meme THEN buy_meme_swap_amounts(p, coin_in_amount, coin_out_min_value)
  ELSE sell_meme_swap_amounts(p, coin_in_amount, coin_out_min_value)

(***************************************************************************)
(* State.                                                                  *)
(***************************************************************************)
VARIABLES
  created,      \* the pool account has been initialised by new_pool
  pool,         \* the BoundPool account
  tickets,      \* the MemeTicket accounts created by swap_y, in order
  stakes,       \* the PropertyStake records created by buy_property_stake
  quote_vault,  \* token balance of the pool's quote vault
  points,       \* balances of the points pool, the user and the referrer
  sells,        \* number of accepted sells
  last          \* the last instruction: its arguments and its outcome

vars == <<created, pool, tickets, stakes, quote_vault, points, sells, last>>

\* Bounds of the exploration.
MaxTickets == 2
MaxSells   == 1
MaxStakes  == 1

\* Program constants (consts.rs), as documented where new_pool uses them.
MAX_AIRDROPPED_TOKENS == 100000000
MIN_LINEAR            == 86400
MAX_LINEAR            == 1123200
DEFAULT_MAX_M         == 690000000
DEFAULT_MAX_M_LP      == 310000000

\* BoundPool::default().
DefaultPool ==
  [meme_reserve |-> 0, quote_reserve |-> 0,
   admin_fees_meme |-> 0, admin_fees_quote |-> 0,
   fees |-> [fee_meme_percent |-> 0, fee_quote_percent |-> 0],
   config |-> [alpha_abs |-> <<>>, beta |-> <<>>,
               price_factor_num |-> 0, price_factor_denom |-> 0,
               gamma_s |-> 0, gamma_m |-> 0, omega_m |-> 0,
               decimals |-> [alpha |-> <<>>, beta |-> <<>>, quote |-> <<>>]],
   airdropped_tokens |-> 0, locked |-> FALSE, vesting_period |-> 0]

\* What new_pool reads from its accounts, arguments and constants.
Deployment(supply, airdropped, vesting, target, quote_decimals, gamma_m, omega_m, pf_num, pf_denom, meme_fee, fee) ==
  [supply |-> supply, airdropped_tokens |-> airdropped, vesting_period |-> vesting,
   token_target_amount |-> target, quote_decimals |-> quote_decimals,
   gamma_m |-> gamma_m, omega_m |-> omega_m,
   price_factor_num |-> pf_num, price_factor_denom |-> pf_denom,
   meme_fee |-> meme_fee, fee |-> fee]

Reference(target, quote_decimals, meme_fee, fee) ==
  Deployment(0, 0, MIN_LINEAR, target, quote_decimals,
             DEFAULT_MAX_M, DEFAULT_MAX_M_LP, 1, 3, meme_fee, fee)

NoDeployment == Deployment(0, 0, 0, 0, 0, 0, 0, 0, 0, 0, 0)

Deployments ==
  { Reference(1000000000, 9, 100, 100),
    Reference(2000000000, 10, 0, 0),
    Reference(1000000000, 9, 0, 0),
    Reference(300000000, 6, 0, 0),
    Reference(1000000000, 6, 100, 100),
    Reference(1000000000, 0, 100, 100),
    Reference(0, 9, 100, 100),
    Deployment(1, 0, MIN_LINEAR, 1000000000, 9, DEFAULT_MAX_M, DEFAULT_MAX_M_LP, 1, 3, 100, 100),
    Deployment(0, MAX_AIRDROPPED_TOKENS + 1, MIN_LINEAR, 1000000000, 9,
               DEFAULT_MAX_M, DEFAULT_MAX_M_LP, 1, 3, 100, 100),
    Deployment(0, 0, MAX_LINEAR + 1, 1000000000, 9,
               DEFAULT_MAX_M, DEFAULT_MAX_M_LP, 1, 3, 100, 100),
    Deployment(0, 0, MIN_LINEAR, 1000000000, 9, DEFAULT_MAX_M, 2070000000, 1, 3, 100, 100),
    Deployment(0, 0, MIN_LINEAR, 1000000000, 9, DEFAULT_MAX_M, DEFAULT_MAX_M_LP, 3, 1, 100, 100),
    Deployment(0, 0, MIN_LINEAR, 1000000000, 9, DEFAULT_MAX_M, DEFAULT_MAX_M_LP, 1, 0, 100, 100) }

\* The arguments of an instruction.
Request(position, coin_in, min_out, referrer) ==
  [position |-> position, coin_in |-> coin_in, min_out |-> min_out, referrer |-> referrer]

NoRequest == Request(0, 0, 0, FALSE)

\* The instruction record: the instruction, its arguments, the ticket it
\* names, how it ended, why it panicked when it did, whether a curve solver
\* ran, and the SwapAmount that swap_amounts returned.
Call(op, dep, req, ticket, result, cause, solver, amt) ==
  [op |-> op, dep |-> dep, req |-> req, ticket |-> ticket, result |-> result,
   cause |-> cause, solver |-> solver, amt |-> amt]

Init ==
  /\ created = FALSE
  /\ pool = DefaultPool
  /\ tickets = <<>>
  /\ stakes = <<>>
  /\ quote_vault = 0
  /\ points = [acc |-> 500, user |-> 0, referrer |-> 0]
  /\ sells = 0
  /\ last = Call("none", NoDeployment, NoRequest, 0, "Ok", "", "NotCalled", NoAmount)

(***************************************************************************)
(* endpoints/new_pool.rs                                                   *)
(***************************************************************************)
\* The intercept for the slope found, and the Config of the pool.
derive_beta(d, mint_decimals, alpha) ==
  LET Config(beta) ==
        IF beta.status # "Ok" THEN [status |-> beta.status, config |-> DefaultPool.config]
        ELSE [status |-> "Ok",
              config |-> [alpha_abs |-> alpha.alpha_abs, beta |-> beta.beta,
                          price_factor_num |-> d.price_factor_num,
                          price_factor_denom |-> d.price_factor_denom,
                          gamma_s |-> d.token_target_amount,
                          gamma_m |-> d.gamma_m, omega_m |-> d.omega_m,
                          decimals |-> [alpha |-> alpha.decimals,
                                        beta  |-> alpha.decimals,
                                        quote |-> mint_decimals]]]
  IN  IF alpha.status # "Ok"
      THEN [status |-> alpha.status, config |-> DefaultPool.config]
      ELSE Config(compute_beta(Big(d.token_target_amount), mint_decimals,
                               Big(d.gamma_m), Big(d.omega_m),
                               d.price_factor_num, d.price_factor_denom,
                               alpha.decimals))

\* The slope for mint_decimals = 10^decimals of the quote mint.
derive_alpha(d, mint_decimals) ==
  derive_beta(d, mint_decimals,
              compute_alpha_abs(Big(d.token_target_amount), mint_decimals,
                                Big(d.gamma_m), Big(d.omega_m),
                                d.price_factor_num, d.price_factor_denom))

\* The curve constants new_pool derives for a deployment.
Derive(d) == derive_alpha(d, Pow(<<10>>, d.quote_decimals))

NewPoolStatus(d) ==
  IF d.supply # 0 THEN "NonZeroInitialMemeSupply"
  ELSE IF d.airdropped_tokens > MAX_AIRDROPPED_TOKENS THEN "AirdroppedTokensOvercap"
  ELSE IF MIN_LINEAR > d.vesting_period \/ d.vesting_period > MAX_LINEAR
       THEN "InvalidVestingPeriod"
  ELSE Derive(d).status

NewPool(d) ==
  /\ ~created
  /\ LET Handle(status, config) ==
           IF status = "Ok"
           THEN /\ created' = TRUE
                /\ pool' = [DefaultPool EXCEPT
                              !.fees = [fee_meme_percent |-> d.meme_fee,
                                        fee_quote_percent |-> d.fee],
                              !.config = config,
                              !.meme_reserve = d.gamma_m,
                              !.locked = FALSE,
                              !.airdropped_tokens = d.airdropped_tokens,
                              !.vesting_period = d.vesting_period]
                /\ last' = Call("new_pool", d, NoRequest, 0, "Ok", "", "NotCalled", NoAmount)
           ELSE /\ UNCHANGED <<created, pool>>
                /\ last' = Call("new_pool", d, NoRequest, 0, status, "", "NotCalled", NoAmount)
     IN  Handle(NewPoolStatus(d), Derive(d).config)
  /\ UNCHANGED <<tickets, stakes, quote_vault, points, sells>>

(***************************************************************************)
(* endpoints/swap_y.rs: buy.                                               *)
(***************************************************************************)
\* The reward rate of the PointsEpoch account.
PointsEpoch == [points_per_sol_num |-> 1, points_per_sol_denom |-> 1000000]

get_swap_points(buy_amount, points_epoch) ==
  (buy_amount * points_epoch.points_per_sol_num) \div points_epoch.points_per_sol_denom

\* Points of swap_y that would not be clamped to the balance of the points pool.
SwapPoints_unclamped(available_points_amt, paid, referrer) ==
  LET points_ == get_swap_points(paid, PointsEpoch)
  IN  [user |-> points_,
       referrer |-> IF points_ > 0 /\ referrer
                    THEN Min(IF available_points_amt > points_
                             THEN available_points_amt - points_ ELSE 0,
                             (points_ * 25000) \div 100000)
                    ELSE 0]

\* The points paid by swap_y: the payout is clamped to the balance of the
\* points pool, the referral to what remains of it.
SwapPoints(available_points_amt, paid, referrer) ==
  LET Referral(clamped_points, remaining, referrer_points) ==
        [user |-> clamped_points,
         referrer |-> IF clamped_points > 0 /\ referrer
                      THEN Min(remaining, referrer_points) ELSE 0]
      Clamped(clamped_points) ==
        Referral(clamped_points,
                 IF available_points_amt > clamped_points
                 THEN available_points_amt - clamped_points ELSE 0,
                 (clamped_points * 25000) \div 100000)
  IN  Clamped(Min(available_points_amt, get_swap_points(paid, PointsEpoch)))

PayPoints(pay) ==
  [acc |-> points.acc - pay.user - pay.referrer,
   user |-> points.user + pay.user,
   referrer |-> points.referrer + pay.referrer]

\* Why a panicking handler panicked.
PanicCause(status) == IF status = "Panic" THEN "ArithmeticOverflow" ELSE status

\* A settlement that would not lock the depleted pool.
BuySettle_without_lock(p, amt) ==
  [p EXCEPT !.admin_fees_quote = @ + amt.admin_fee_in,
            !.admin_fees_meme  = @ + amt.admin_fee_out,
            !.quote_reserve    = @ + amt.amount_in,
            !.meme_reserve     = @ - (amt.amount_out + amt.admin_fee_out)]

\* A settlement of a buy that would not book the quote fee.
BuySettle_without_quote_fee(p, amt) ==
  LET meme == p.meme_reserve - (amt.amount_out + amt.admin_fee_out)
  IN  [p EXCEPT !.admin_fees_meme  = @ + amt.admin_fee_out,
                !.quote_reserve    = @ + amt.amount_in,
                !.meme_reserve     = meme,
                !.locked           = IF meme = 0 THEN TRUE ELSE @]

\* The pool after the reserve and fee updates of a buy.
BuySettle(p, amt) ==
  LET meme == p.meme_reserve - (amt.amount_out + amt.admin_fee_out)
  IN  [p EXCEPT !.admin_fees_quote = @ + amt.admin_fee_in,
                !.admin_fees_meme  = @ + amt.admin_fee_out,
                !.quote_reserve    = @ + amt.amount_in,
                !.meme_reserve     = meme,
                !.locked           = IF meme = 0 THEN TRUE ELSE @]

\* MemeTicket::setup.
NewTicket(amount) == [amount |-> amount, notional |-> amount, unlocked |-> FALSE]

BuyRequests ==
  { Request(0, 0, 0, FALSE),
    Request(0, 1000000, 0, FALSE),
    Request(0, 1000000, INTMAX, FALSE),
    Request(0, 1009101009, 0, TRUE),
    Request(0, 2000000000, 0, FALSE) }

\* An instruction that returns an error: nothing is written.
Rejected(op, r, i, result, solver, amt) ==
  /\ last' = Call(op, NoDeployment, r, i, result, "", solver, amt)
  /\ UNCHANGED <<created, pool, tickets, stakes, quote_vault, points, sells>>

\* An instruction that panics: the transaction aborts and nothing is written.
Panicked(op, r, i, cause, solver, amt) ==
  /\ last' = Call(op, NoDeployment, r, i, "Panic", cause, solver, amt)
  /\ UNCHANGED <<created, pool, tickets, stakes, quote_vault, points, sells>>

\* Checks of swap_y that would let a locked pool trade.
swap_y_checks_without_lock(p, r) ==
  IF r.coin_in = 0 THEN "NoZeroTokens" ELSE "Ok"

\* The checks of swap_y before it computes anything.
swap_y_checks(p, r) ==
  IF r.coin_in = 0 THEN "NoZeroTokens"
  ELSE IF p.locked THEN "PoolIsLocked"
  ELSE "Ok"

SwapY(r) ==
  /\ created
  /\ Len(tickets) < MaxTickets
  /\ LET Handle(checks, swap_amount) ==
           LET amt  == swap_amount.amt
               paid == amt.amount_in + amt.admin_fee_in
           IN  IF checks # "Ok"
               THEN Rejected("swap_y", r, 0, checks, "NotCalled", NoAmount)
               ELSE IF swap_amount.status # "Ok"
               THEN Panicked("swap_y", r, 0, PanicCause(swap_amount.status),
                             swap_amount.solver, amt)
               ELSE IF pool.meme_reserve < amt.amount_out + amt.admin_fee_out
               THEN Panicked("swap_y", r, 0, "ReserveUnderflow", swap_amount.solver, amt)
               ELSE /\ pool' = BuySettle(pool, amt)
                    /\ quote_vault' = quote_vault + paid
                    /\ points' = PayPoints(SwapPoints(points.acc, paid, r.referrer))
                    /\ tickets' = Append(tickets, NewTicket(amt.amount_out))
                    /\ last' = Call("swap_y", NoDeployment, r, Len(tickets) + 1,
                                    "Ok", "", swap_amount.solver, amt)
                    /\ UNCHANGED <<created, stakes, sells>>
     IN  Handle(swap_y_checks(pool, r), swap_amounts(pool, r.coin_in, r.min_out, TRUE))

(***************************************************************************)
(* endpoints/swap_x.rs: sell.                                              *)
(***************************************************************************)
\* A settlement of a sell that would not book the meme fee.
SellSettle_without_meme_fee(p, amt) ==
  [p EXCEPT !.admin_fees_quote = @ + amt.admin_fee_out,
            !.meme_reserve     = @ + amt.amount_in,
            !.quote_reserve    = @ - (amt.amount_out + amt.admin_fee_out)]

SellSettle(p, amt) ==
  [p EXCEPT !.admin_fees_meme  = @ + amt.admin_fee_in,
            !.admin_fees_quote = @ + amt.admin_fee_out,
            !.meme_reserve     = @ + amt.amount_in,
            !.quote_reserve    = @ - (amt.amount_out + amt.admin_fee_out)]

SellRequests(ticket) ==
  { Request(0, 0, 0, FALSE),
    Request(0, 2, 0, FALSE),
    Request(0, 2, INTMAX, FALSE),
    Request(0, ticket.amount, 0, FALSE),
    Request(0, ticket.amount + 1, 0, FALSE) }

\* Checks of swap_x that would compare the amount before the ticket's lock.
swap_x_checks_amount_first(p, user_ticket, r) ==
  IF r.coin_in = 0 THEN "NoZeroTokens"
  ELSE IF r.coin_in > user_ticket.amount THEN "NotEnoughTicketTokens"
  ELSE IF ~user_ticket.unlocked THEN "TicketTokensLocked"
  ELSE IF p.locked THEN "PoolIsLocked"
  ELSE "Ok"

\* The checks of swap_x before it computes anything.
swap_x_checks(p, user_ticket, r) ==
  IF r.coin_in = 0 THEN "NoZeroTokens"
  ELSE IF ~user_ticket.unlocked THEN "TicketTokensLocked"
  ELSE IF r.coin_in > user_ticket.amount THEN "NotEnoughTicketTokens"
  ELSE IF p.locked THEN "PoolIsLocked"
  ELSE "Ok"

SwapX(i, r) ==
  /\ created
  /\ sells < MaxSells
  /\ i \in 1..Len(tickets)
  /\ LET user_ticket == tickets[i]
         Handle(checks, swap_amount) ==
           LET amt == swap_amount.amt
           IN  IF checks # "Ok"
               THEN Rejected("swap_x", r, i, checks, "NotCalled", NoAmount)
               ELSE IF swap_amount.status # "Ok"
               THEN Panicked("swap_x", r, i, PanicCause(swap_amount.status),
                             swap_amount.solver, amt)
               ELSE IF pool.quote_reserve < amt.amount_out + amt.admin_fee_out
               THEN Panicked("swap_x", r, i, "ReserveUnderflow", swap_amount.solver, amt)
               ELSE IF user_ticket.notional < r.coin_in
               THEN Panicked("swap_x", r, i, "ArithmeticOverflow", swap_amount.solver, amt)
               ELSE /\ pool' = SellSettle(pool, amt)
                    /\ tickets' = [tickets EXCEPT ![i].amount = @ - r.coin_in,
                                                  ![i].notional = @ - r.coin_in]
                    /\ quote_vault' = quote_vault - amt.amount_out
                    /\ sells' = sells + 1
                    /\ last' = Call("swap_x", NoDeployment, r, i,
                                    "Ok", "", swap_amount.solver, amt)
                    /\ UNCHANGED <<created, stakes, points>>
     IN  Handle(swap_x_checks(pool, user_ticket, r),
                swap_amounts(pool, r.coin_in, r.min_out, FALSE))

\* The clock passes the lock time of the tickets issued so far
\* (MemeTicket::is_unlocked).
TimePasses ==
  /\ \E i \in 1..Len(tickets) : ~tickets[i].unlocked
  /\ tickets' = [i \in 1..Len(tickets) |-> [tickets[i] EXCEPT !.unlocked = TRUE]]
  /\ last' = Call("clock", NoDeployment, NoRequest, 0, "Ok", "", "NotCalled", NoAmount)
  /\ UNCHANGED <<created, pool, stakes, quote_vault, points, sells>>

(***************************************************************************)
(* lib.rs: buy_property_stake.                                             *)
(***************************************************************************)
\* The points paid by buy_property_stake: the referral is not clamped to
\* what remains of the points pool.
StakePoints(available_points, paid, referrer) ==
  LET Clamped(clamped_points) ==
        [user |-> clamped_points,
         referrer |-> IF clamped_points > 0 /\ referrer
                      THEN (clamped_points * 25000) \div 100000 ELSE 0]
  IN  Clamped(Min(available_points, get_swap_points(paid, PointsEpoch)))

StakeRequests ==
  { Request(40, 1000000, 0, FALSE),
    Request(0, 0, 0, FALSE),
    Request(0, 400000000, 0, FALSE),
    Request(0, 998000000, 0, FALSE),
    Request(0, 2000000000, 0, TRUE) }

\* Checks of buy_property_stake that would let a locked pool trade.
buy_property_stake_checks_without_lock(p, r) ==
  IF ~(r.position < 40) THEN "InvalidPropertyPosition"
  ELSE IF ~(r.coin_in > 0) THEN "NoZeroTokens"
  ELSE "Ok"

\* The checks of buy_property_stake before it computes anything.
buy_property_stake_checks(p, r) ==
  IF ~(r.position < 40) THEN "InvalidPropertyPosition"
  ELSE IF ~(r.coin_in > 0) THEN "NoZeroTokens"
  ELSE IF p.locked THEN "PoolIsLocked"
  ELSE "Ok"

BuyPropertyStake(r) ==
  /\ created
  /\ Len(stakes) < MaxStakes
  /\ LET Handle(checks, swap_amount) ==
           LET amt  == swap_amount.amt
               paid == amt.amount_in + amt.admin_fee_in
               pay  == StakePoints(points.acc, paid, r.referrer)
           IN  IF checks # "Ok"
               THEN Rejected("buy_property_stake", r, 0, checks, "NotCalled", NoAmount)
               ELSE IF swap_amount.status # "Ok"
               THEN Panicked("buy_property_stake", r, 0, PanicCause(swap_amount.status),
                             swap_amount.solver, amt)
               ELSE IF ~(amt.amount_out >= r.min_out)
               THEN Rejected("buy_property_stake", r, 0, "InsufficientOutputAmount",
                             swap_amount.solver, amt)
               ELSE IF pay.user + pay.referrer > points.acc
               THEN Rejected("buy_property_stake", r, 0, "InsufficientFunds",
                             swap_amount.solver, amt)
               ELSE IF pool.meme_reserve < amt.amount_out + amt.admin_fee_out
               THEN Panicked("buy_property_stake", r, 0, "ReserveUnderflow",
                             swap_amount.solver, amt)
               ELSE /\ pool' = BuySettle(pool, amt)
                    /\ quote_vault' = quote_vault + paid
                    /\ points' = PayPoints(pay)
                    /\ stakes' = Append(stakes, [property_position |-> r.position,
                                                 stake_amount |-> amt.amount_out,
                                                 total_investment |-> amt.amount_out,
                                                 stake_count |-> 1])
                    /\ last' = Call("buy_property_stake", NoDeployment, r, 0,
                                    "Ok", "", swap_amount.solver, amt)
                    /\ UNCHANGED <<created, tickets, sells>>
     IN  Handle(buy_property_stake_checks(pool, r),
                swap_amounts(pool, r.coin_in, r.min_out, TRUE))

Next ==
  \/ \E d \in Deployments : NewPool(d)
  \/ \E r \in BuyRequests : SwapY(r)
  \/ \E i \in 1..Len(tickets) : \E r \in SellRequests(tickets[i]) : SwapX(i, r)
  \/ TimePasses
  \/ \E r \in StakeRequests : BuyPropertyStake(r)

Spec == Init /\ [][Next]_vars

(***************************************************************************)
(* endpoints/get_swap_x_amt.rs: the preview.                               *)
(***************************************************************************)
PreviewRequests == { Request(0, 1000000, 0, FALSE) }

\* The handler logs the amounts of swap_amounts and writes no account.
GetSwapXAmt(r) ==
  /\ created
  /\ LET Handle(swap_amount) ==
           IF swap_amount.status # "Ok"
           THEN Panicked("get_swap_x_amt", r, 0, PanicCause(swap_amount.status),
                         swap_amount.solver, swap_amount.amt)
           ELSE /\ last' = Call("get_swap_x_amt", NoDeployment, r, 0,
                                "Ok", "", swap_amount.solver, swap_amount.amt)
                /\ UNCHANGED <<created, pool, tickets, stakes, quote_vault, points, sells>>
     IN  Handle(swap_amounts(pool, r.coin_in, r.min_out, FALSE))

\* The instructions of Next and the preview.
NextWithPreview ==
  \/ Next
  \/ \E r \in PreviewRequests : GetSwapXAmt(r)

SpecWithPreview == Init /\ [][NextWithPreview]_vars

(***************************************************************************)
(* Properties.                                                             *)
(***************************************************************************)
BuyOps  == {"swap_y", "buy_property_stake"}
SwapOps == {"swap_y", "swap_x", "buy_property_stake"}
ValidationErrors ==
  {"NoZeroTokens", "PoolIsLocked", "TicketTokensLocked", "NotEnoughTicketTokens",
   "InvalidPropertyPosition"}

\* The step is an instruction among ops.
Attempted(ops) ==
  /\ last'.op \in ops
  /\ (last' # last \/ pool' # pool \/ tickets' # tickets \/ stakes' # stakes)

\* The step is an instruction among ops that returned Ok.
Accepted(ops) == Attempted(ops) /\ last'.result = "Ok"

\* The arguments of the step's instruction pass every check but the pool's lock.
ArgumentsValid ==
  CASE last'.op = "swap_y" -> last'.req.coin_in # 0
    [] last'.op = "swap_x" -> /\ last'.req.coin_in # 0
                              /\ tickets[last'.ticket].unlocked
                              /\ last'.req.coin_in <= tickets[last'.ticket].amount
    [] last'.op = "buy_property_stake" -> last'.req.position < 40 /\ last'.req.coin_in > 0
    [] OTHER -> FALSE

\* C1: in every reachable state of a created pool, an unlocked pool holds less
\* quote than gamma_s and more than zero meme tokens.
PoolInvariant ==
  (created /\ ~pool.locked) =>
    (pool.quote_reserve < pool.config.gamma_s /\ pool.meme_reserve > 0)

\* An unlocked pool that has taken buys and a sell.
PoolInvariantReached ==
  /\ created /\ ~pool.locked
  /\ last.op = "swap_x" /\ last.result = "Ok"
  /\ pool.quote_reserve > 0 /\ pool.meme_reserve < pool.config.gamma_m

\* C2, as the code has it: a buy that leaves the meme reserve at zero locks
\* the pool in the same step, and every swap attempted on a locked pool fails:
\* with PoolIsLocked when its arguments pass the checks that come before the
\* lock check, with the error of the first of those checks otherwise.
LockOnDepletion ==
  [][ /\ (Accepted(BuyOps) /\ pool'.meme_reserve = 0) => pool'.locked
      /\ (pool.locked /\ Attempted(SwapOps)) =>
           /\ last'.result \in ValidationErrors
           /\ ArgumentsValid => last'.result = "PoolIsLocked" ]_vars

\* C2, as stated: every swap attempted on a locked pool fails with PoolIsLocked.
LockedPoolAlwaysPoolIsLocked ==
  [][ (pool.locked /\ Attempted(SwapOps)) => last'.result = "PoolIsLocked" ]_vars

\* A sell refused by the lock of a pool that a buy depleted.
LockOnDepletionReached ==
  /\ pool.locked /\ pool.meme_reserve = 0
  /\ last.op = "swap_x" /\ last.result = "PoolIsLocked"

\* C3: a locked pool stays locked and no instruction changes its reserves or
\* its fee accumulators; the pool becomes locked only in an accepted buy.
LockedIsTerminal ==
  [][ /\ pool.locked =>
           /\ pool'.locked
           /\ pool'.meme_reserve = pool.meme_reserve
           /\ pool'.quote_reserve = pool.quote_reserve
           /\ pool'.admin_fees_meme = pool.admin_fees_meme
           /\ pool'.admin_fees_quote = pool.admin_fees_quote
      /\ (~pool.locked /\ pool'.locked) => Accepted(BuyOps) ]_vars

\* A buy refused by a locked pool that still has tickets out.
LockedIsTerminalReached ==
  /\ pool.locked /\ Len(tickets) > 0
  /\ last.op \in BuyOps /\ last.result = "PoolIsLocked"

\* C4, as stated: whenever swap_amounts returns a SwapAmount, amount_out plus
\* admin_fee_out is at most the reserve the handler debits.
ReservesCoverDebit ==
  [][ (Attempted(SwapOps) /\ (last'.result = "Ok" \/ last'.cause = "ReserveUnderflow")) =>
        last'.amt.amount_out + last'.amt.admin_fee_out
          <= (IF last'.op = "swap_x" THEN pool.quote_reserve ELSE pool.meme_reserve) ]_vars

\* C5, as the code has it: the net input is the gross input less the input
\* fee, cut to the remaining headroom; so fee plus net input equals the gross
\* input exactly when the input is not cut, and is less when it is.
FeeConservation ==
  [][ Accepted(SwapOps) =>
        LET amt      == last'.amt
            gross    == last'.req.coin_in
            headroom == IF last'.op = "swap_x"
                        THEN pool.config.gamma_m - pool.meme_reserve
                        ELSE pool.config.gamma_s - pool.quote_reserve
        IN  /\ amt.admin_fee_in + amt.amount_in <= gross
            /\ amt.amount_in <= headroom
            /\ (amt.admin_fee_in + amt.amount_in = gross)
                 <=> (gross - amt.admin_fee_in <= headroom)
            /\ (gross - amt.admin_fee_in > headroom) => amt.amount_in = headroom ]_vars

\* C5, as stated: fee plus net input equals the gross input of every
\* accepted swap.
GrossInputConserved ==
  (last.op \in SwapOps /\ last.result = "Ok") =>
    last.amt.admin_fee_in + last.amt.amount_in = last.req.coin_in

\* An accepted buy whose input was cut to the headroom.
FeeConservationReached ==
  /\ last.op = "swap_y" /\ last.result = "Ok"
  /\ last.amt.admin_fee_in > 0
  /\ last.amt.admin_fee_in + last.amt.amount_in < last.req.coin_in

\* The step is a buy past its checks whose fee-adjusted input reaches the headroom.
ReachesHeadroom ==
  /\ Attempted(BuyOps)
  /\ last'.result \notin ValidationErrors
  /\ last'.req.coin_in - get_fee_quote_amount(pool.fees, last'.req.coin_in)
       >= pool.config.gamma_s - pool.quote_reserve

\* C6, as the code has it: a buy whose fee-adjusted input reaches the headroom
\* takes the whole meme reserve out of the pool without running the solver:
\* amount_out is the reserve less the output fee on it.
HeadroomClamp ==
  [][ ReachesHeadroom =>
        /\ last'.solver = "NotCalled"
        /\ last'.result = "Ok" =>
             /\ last'.amt.amount_out + last'.amt.admin_fee_out = pool.meme_reserve
             /\ last'.amt.admin_fee_out = get_fee_meme_amount(pool.fees, pool.meme_reserve) ]_vars

\* C6, as stated: such a buy returns the whole meme reserve as amount_out.
ClampReturnsWholeReserve ==
  [][ (ReachesHeadroom /\ last'.result = "Ok") =>
        last'.amt.amount_out = pool.meme_reserve ]_vars

\* A buy that reached the headroom in a pool that charges a meme fee.
HeadroomClampReached ==
  /\ last.op \in BuyOps /\ last.result = "Ok" /\ last.solver = "NotCalled"
  /\ last.amt.admin_fee_out > 0 /\ pool.meme_reserve = 0

\* C7, as stated: a swap whose amounts were computed fails with
\* SlippageExceeded exactly when its net output is below the minimum.
SlippageIsTyped ==
  (/\ last.op \in SwapOps
   /\ last.result \in {"Ok", "Panic", "SlippageExceeded"}
   /\ last.cause \in {"", "SlippageExceeded", "ReserveUnderflow"}) =>
    ((last.result = "SlippageExceeded") <=> (last.amt.amount_out < last.req.min_out))

\* C8: when the solver of a swap ends in MathOverflow the instruction fails
\* and the pool, the tickets, the stakes and the balances are what they were.
SolverFailureIsAtomic ==
  [][ (Attempted(SwapOps) /\ last'.solver = "MathOverflow") =>
        /\ last'.result # "Ok"
        /\ UNCHANGED <<pool, tickets, stakes, quote_vault, points>> ]_vars

\* A sell that failed in the inverse solver.
SolverFailureIsAtomicReached ==
  /\ last.op = "swap_x" /\ last.solver = "MathOverflow" /\ last.result = "Panic"

\* The error the checks of swap_y and swap_x give the step's instruction:
\* that of the first check, in the order of the code, that its arguments fail.
FirstFailedCheck ==
  IF last'.req.coin_in = 0 THEN "NoZeroTokens"
  ELSE IF last'.op = "swap_x" /\ ~tickets[last'.ticket].unlocked
       THEN "TicketTokensLocked"
  ELSE IF last'.op = "swap_x" /\ last'.req.coin_in > tickets[last'.ticket].amount
       THEN "NotEnoughTicketTokens"
  ELSE IF pool.locked THEN "PoolIsLocked"
  ELSE "Ok"

\* C9, as the code has it: the checks run before any arithmetic in the order
\* zero amount, ticket lock, ticket amount, pool lock; an instruction that
\* fails one returns the error of the first it fails, runs no solver and
\* leaves the pool and the tickets as they were.
ValidationOrder ==
  [][ Attempted({"swap_y", "swap_x"}) =>
        IF FirstFailedCheck # "Ok"
        THEN /\ last'.result = FirstFailedCheck
             /\ last'.solver = "NotCalled"
             /\ UNCHANGED <<pool, tickets>>
        ELSE last'.result \notin ValidationErrors ]_vars

\* C9, as stated: each condition gives its own error whatever else holds.
EachConditionItsError ==
  [][ Attempted({"swap_y", "swap_x"}) =>
        /\ last'.req.coin_in = 0 => last'.result = "NoZeroTokens"
        /\ (last'.op = "swap_x" /\ last'.req.coin_in > tickets[last'.ticket].amount)
             => last'.result = "NotEnoughTicketTokens"
        /\ (last'.op = "swap_x" /\ ~tickets[last'.ticket].unlocked)
             => last'.result = "TicketTokensLocked"
        /\ pool.locked => last'.result = "PoolIsLocked" ]_vars

\* A sell of more than the ticket holds, refused for the ticket's lock.
ValidationOrderReached ==
  /\ last.op = "swap_x" /\ last.result = "TicketTokensLocked"
  /\ last.req.coin_in > tickets[last.ticket].amount

\* floor(omega_m * price_factor_num / price_factor_denom) >= gamma_m.
SlopeNotNegative(d) ==
  /\ d.price_factor_denom # 0
  /\ (d.omega_m * d.price_factor_num) \div d.price_factor_denom >= d.gamma_m

\* C10: for a curve whose slope is not negative compute_alpha_abs returns
\* BondingCurveMustBeNegativelySloped, new_pool fails with it and the pool
\* account keeps its default contents.
NonNegativeSlopeFails ==
  (last.op = "new_pool" /\ SlopeNotNegative(last.dep)) =>
    /\ compute_alpha_abs(Big(last.dep.token_target_amount),
                         Pow(<<10>>, last.dep.quote_decimals),
                         Big(last.dep.gamma_m), Big(last.dep.omega_m),
                         last.dep.price_factor_num, last.dep.price_factor_denom)
         = [NoCurve EXCEPT !.status = "BondingCurveMustBeNegativelySloped"]
    /\ last.result # "Ok"
    /\ (/\ last.dep.supply = 0
        /\ last.dep.airdropped_tokens <= MAX_AIRDROPPED_TOKENS
        /\ last.dep.vesting_period >= MIN_LINEAR
        /\ last.dep.vesting_period <= MAX_LINEAR)
         => last.result = "BondingCurveMustBeNegativelySloped"
    /\ ~created
    /\ pool = DefaultPool

\* A creation refused for a curve that is exactly horizontal.
NonNegativeSlopeFailsReached ==
  /\ last.op = "new_pool" /\ last.result = "BondingCurveMustBeNegativelySloped"
  /\ last.dep.omega_m * last.dep.price_factor_num
       = last.dep.gamma_m * last.dep.price_factor_denom
  /\ ~created

\* The amounts a buy would pay for.
RoundTripInputs == {1000, 1000000}

\* A buy of delta_s in the pool p and, at once, the sale of what it gave.
RoundTrip(p, delta_s) ==
  LET buy == swap_amounts(p, delta_s, 0, TRUE)
  IN  [buy  |-> buy,
       sell |-> swap_amounts(BuySettle(p, buy.amt), buy.amt.amount_out, 0, FALSE)]

\* C11, as stated: in an unlocked pool that charges no fee, a buy of delta_s
\* followed at once by the sale of the meme tokens it gave returns delta_s
\* to within one unit.
RoundTripWithinOneUnit ==
  (/\ created /\ ~pool.locked
   /\ pool.fees.fee_meme_percent = 0 /\ pool.fees.fee_quote_percent = 0) =>
    \A delta_s \in RoundTripInputs :
      LET trip == RoundTrip(pool, delta_s)
      IN  (trip.buy.status = "Ok" /\ trip.sell.status = "Ok") =>
            trip.sell.amt.amount_out - delta_s \in -1..1

\* Quote reserves a buy may bring the pool to.
ForwardTargets == {500000000, 926756591, 926756592}

\* C12, as stated: for the curve of a created pool and s_a its quote reserve,
\* compute_delta_m(s_a, s_b) is strictly increasing in s_b up to gamma_s.
ForwardStrictlyIncreasing ==
  (created /\ ~pool.locked) =>
    \A s_b1, s_b2 \in ForwardTargets :
      (pool.quote_reserve <= s_b1 /\ s_b1 < s_b2 /\ s_b2 <= pool.config.gamma_s) =>
        LET m1 == compute_delta_m(pool.config, pool.quote_reserve, s_b1)
            m2 == compute_delta_m(pool.config, pool.quote_reserve, s_b2)
        IN  (m1.status = "Ok" /\ m2.status = "Ok") => m1.value < m2.value

\* Pairs of meme amounts a sell may bring, the smaller first.
InverseAmounts == {<<2, 3>>, <<50000, 100000>>}

\* C13, as the code has it: for the curve of a created pool and s_b its quote
\* reserve, compute_delta_s(s_b, delta_m) does not decrease as delta_m grows,
\* whenever it succeeds for both amounts; equal results do occur.
InverseNonDecreasing ==
  created =>
    \A delta_m \in InverseAmounts :
      delta_m[1] < delta_m[2] =>
        LET s1 == compute_delta_s(pool.config, pool.quote_reserve, delta_m[1])
            s2 == compute_delta_s(pool.config, pool.quote_reserve, delta_m[2])
        IN  (s1.status = "Ok" /\ s2.status = "Ok") => s1.value <= s2.value

\* C13, as stated: compute_delta_s(s_b, delta_m) is strictly increasing in
\* delta_m whenever it succeeds for both amounts.
InverseStrictlyIncreasing ==
  created =>
    \A delta_m \in InverseAmounts :
      delta_m[1] < delta_m[2] =>
        LET s1 == compute_delta_s(pool.config, pool.quote_reserve, delta_m[1])
            s2 == compute_delta_s(pool.config, pool.quote_reserve, delta_m[2])
        IN  (s1.status = "Ok" /\ s2.status = "Ok") => s1.value < s2.value

\* A pool that has taken a buy and whose inverse solver gives the same quote
\* amount for 2 and for 3 meme tokens, and more for 100000 than for 50000.
InverseNonDecreasingReached ==
  /\ created /\ pool.quote_reserve > 0
  /\ compute_delta_s(pool.config, pool.quote_reserve, 2).status = "Ok"
  /\ compute_delta_s(pool.config, pool.quote_reserve, 2).value
       = compute_delta_s(pool.config, pool.quote_reserve, 3).value
  /\ compute_delta_s(pool.config, pool.quote_reserve, 50000).value
       < compute_delta_s(pool.config, pool.quote_reserve, 100000).value

\* The quote amount the buyer of the step pays: net input and input fee.
QuotePaid == last'.amt.amount_in + last'.amt.admin_fee_in

\* C14: an accepted buy pays its buyer min(available points, floor(q *
\* points_per_sol_num / points_per_sol_denom)) points, q being the quote
\* amount the buyer pays; at the rate 1/1000, q = 100000 earns 100 points.
BuyerPoints ==
  [][ Accepted(BuyOps) =>
        LET earned == (QuotePaid * PointsEpoch.points_per_sol_num)
                        \div PointsEpoch.points_per_sol_denom
        IN  /\ points'.user - points.user
                 = (IF points.acc <= earned THEN points.acc ELSE earned)
            /\ get_swap_points(100000, [points_per_sol_num |-> 1,
                                        points_per_sol_denom |-> 1000]) = 100 ]_vars

\* A buy whose payout was cut to what the points pool held.
BuyerPointsReached ==
  /\ last.op = "swap_y" /\ last.result = "Ok"
  /\ points.acc = 0 /\ points.user > 0
  /\ ((last.amt.amount_in + last.amt.admin_fee_in) * PointsEpoch.points_per_sol_num)
        \div PointsEpoch.points_per_sol_denom > points.user

\* The payout of the step's buy after the clamp to the points pool.
ClampedPoints ==
  Min(points.acc,
      (QuotePaid * PointsEpoch.points_per_sol_num) \div PointsEpoch.points_per_sol_denom)

\* C15, as stated: a buy with a referrer that reaches the payout of points
\* pays the referrer min(floor(clamped_points * 25000 / 100000), available
\* points - clamped_points), never pays out more than the points pool holds,
\* and does not fail for a payout.
ReferralClamped ==
  [][ (/\ Attempted(BuyOps) /\ last'.req.referrer
       /\ last'.result \in {"Ok", "InsufficientFunds"}) =>
        /\ last'.result = "Ok"
        /\ points'.referrer - points.referrer
             = Min((ClampedPoints * 25000) \div 100000, points.acc - ClampedPoints)
        /\ points'.acc >= 0 ]_vars

\* C16, as stated: the preview reports the amount_in and amount_out of
\* swap_amounts in the buy direction on the same pool, and leaves the pool
\* as it was.
PreviewIsBuy ==
  [][ Attempted({"get_swap_x_amt"}) =>
        LET buy == swap_amounts(pool, last'.req.coin_in, last'.req.min_out, TRUE)
        IN  /\ pool' = pool
            /\ buy.status = "Ok" =>
                 /\ last'.result = "Ok"
                 /\ last'.amt.amount_in = buy.amt.amount_in
                 /\ last'.amt.amount_out = buy.amt.amount_out ]_vars

\* The curve of the example: gamma_s = 1000000000 with the divisor 10^9,
\* gamma_m = 690000000, omega_m = 310000000 and the price factor 1/3.
IsExampleCurve(gamma_s, quote_decimals, gamma_m, omega_m, num, denom) ==
  /\ gamma_s = 1000000000 /\ quote_decimals = 9
  /\ gamma_m = 690000000 /\ omega_m = 310000000
  /\ num = 1 /\ denom = 3

\* The precisions of the scale table.
Precisions == { Pow(<<10>>, k) : k \in 0..8 }

\* C17: for the curve of the example check_slope and check_intercept pass,
\* new_pool with otherwise valid arguments succeeds, and the pool it creates
\* has alpha_abs > 0, beta > 0 and a precision of the scale table.
ExampleCurveDerives ==
  /\ (/\ last.op = "new_pool"
      /\ IsExampleCurve(last.dep.token_target_amount, last.dep.quote_decimals,
                        last.dep.gamma_m, last.dep.omega_m,
                        last.dep.price_factor_num, last.dep.price_factor_denom)) =>
       /\ check_slope(Big(last.dep.gamma_m), Big(last.dep.omega_m),
                      last.dep.price_factor_num, last.dep.price_factor_denom) = "Ok"
       /\ check_intercept(Big(last.dep.gamma_m), Big(last.dep.omega_m),
                          last.dep.price_factor_num, last.dep.price_factor_denom) = "Ok"
       /\ (/\ last.dep.supply = 0
           /\ last.dep.airdropped_tokens <= MAX_AIRDROPPED_TOKENS
           /\ last.dep.vesting_period >= MIN_LINEAR
           /\ last.dep.vesting_period <= MAX_LINEAR) => (last.result = "Ok" /\ created)
  /\ (/\ created
      /\ IsExampleCurve(pool.config.gamma_s, Digits(pool.config.decimals.quote) - 1,
                        pool.config.gamma_m, pool.config.omega_m,
                        pool.config.price_factor_num, pool.config.price_factor_denom)) =>
       /\ Cmp(pool.config.alpha_abs, <<>>) > 0
       /\ Cmp(pool.config.beta, <<>>) > 0
       /\ pool.config.decimals.alpha \in Precisions
       /\ pool.config.decimals.beta = pool.config.decimals.alpha

\* The pool of the example right after its creation, with precision 10^4.
ExampleCurveDerivesReached ==
  /\ created /\ last.op = "new_pool" /\ last.result = "Ok"
  /\ IsExampleCurve(last.dep.token_target_amount, last.dep.quote_decimals,
                    last.dep.gamma_m, last.dep.omega_m,
                    last.dep.price_factor_num, last.dep.price_factor_denom)
  /\ pool.config.decimals.alpha = Big(10000)
  /\ pool.config.alpha_abs # <<>> /\ pool.config.beta # <<>>

\* C18: an accepted sell carries twice the meme fee of its input as
\* admin_fee_in and twice the quote fee of the solved output as admin_fee_out;
\* an accepted buy carries the quote fee of its input and the meme fee of
\* the solved output, each once.
SellFeesDoubled ==
  (last.op \in SwapOps /\ last.result = "Ok") =>
    IF last.op = "swap_x"
    THEN /\ last.amt.admin_fee_in = 2 * get_fee_meme_amount(pool.fees, last.req.coin_in)
         /\ last.amt.admin_fee_out =
              2 * get_fee_quote_amount(pool.fees, last.amt.amount_out + last.amt.admin_fee_out)
    ELSE /\ last.amt.admin_fee_in = get_fee_quote_amount(pool.fees, last.req.coin_in)
         /\ last.amt.admin_fee_out =
              get_fee_meme_amount(pool.fees, last.amt.amount_out + last.amt.admin_fee_out)

\* An accepted sell in a pool that charges both fees.
SellFeesDoubledReached ==
  /\ last.op = "swap_x" /\ last.result = "Ok"
  /\ get_fee_meme_amount(pool.fees, last.req.coin_in) > 0
  /\ last.amt.admin_fee_in = 2 * get_fee_meme_amount(pool.fees, last.req.coin_in)
  /\ last.amt.admin_fee_out > 0

\* Amounts of quote a buy may add to the reserve, as far as the sum stays
\* within the integers of the model.
StrategySteps == { step \in {1, 990000, 500000000} : step <= INTMAX - pool.quote_reserve }

\* The primary strategy of compute_delta_m on the curve of the pool, from its
\* quote reserve to the reserve a step further.
PrimaryStrategy(step) ==
  delta_m1_strategy(pool.config.alpha_abs, pool.config.beta,
                    pool.config.decimals.alpha, pool.config.decimals.beta,
                    Big(pool.quote_reserve), Big(pool.quote_reserve + step))

\* The fallback strategy on the same input.
FallbackStrategy(step) ==
  delta_m2_strategy(pool.config.alpha_abs, pool.config.beta,
                    pool.config.decimals.alpha, pool.config.decimals.beta,
                    Big(pool.quote_reserve), Big(pool.quote_reserve + step))

\* C19: compute_delta_m returns the result of the primary strategy whenever
\* that succeeds, otherwise the result of the fallback strategy whenever that
\* succeeds, and fails with MathOverflow exactly when both report failure.
StrategiesInOrder ==
  created =>
    \A step \in StrategySteps :
      LET primary  == PrimaryStrategy(step)
          fallback == FallbackStrategy(step)
          delta_m  == compute_delta_m(pool.config, pool.quote_reserve,
                                      pool.quote_reserve + step)
      IN  /\ primary # NONE =>
               (delta_m.status = "Ok" /\ delta_m.value = SolverValue(primary))
          /\ (primary = NONE /\ fallback # NONE) =>
               (delta_m.status = "Ok" /\ delta_m.value = SolverValue(fallback))
          /\ (delta_m.status = "MathOverflow") <=> (primary = NONE /\ fallback = NONE)
          /\ delta_m.status \in {"Ok", "MathOverflow"}

\* A pool on whose curve one step has the two strategies succeed with
\* different results, and another step has both fail.
StrategiesInOrderReached ==
  /\ created
  /\ \E step \in StrategySteps :
       /\ PrimaryStrategy(step) # NONE /\ FallbackStrategy(step) # NONE
       /\ PrimaryStrategy(step) # FallbackStrategy(step)
       /\ compute_delta_m(pool.config, pool.quote_reserve,
                          pool.quote_reserve + step).value = SolverValue(PrimaryStrategy(step))
  /\ \E step \in StrategySteps :
       /\ PrimaryStrategy(step) = NONE /\ FallbackStrategy(step) = NONE
       /\ compute_delta_m(pool.config, pool.quote_reserve,
                          pool.quote_reserve + step).status = "MathOverflow"

\* Meme amounts a sell may bring to the inverse solver; the second is
\* gamma_m, the most a sell passes on.
TruncationAmounts == {50000, 690000000}

\* The wide result of the forward solver a step from the quote reserve.
WideDeltaM(step) ==
  IF PrimaryStrategy(step) # NONE THEN PrimaryStrategy(step) ELSE FallbackStrategy(step)

\* The wide result of the inverse solver at the quote reserve.
WideDeltaS(delta_m) ==
  delta_s_strategy(pool.config.alpha_abs, pool.config.beta,
                   pool.config.decimals.alpha, pool.config.decimals.beta,
                   Big(pool.quote_reserve), Big(delta_m))

\* A solver that succeeded returned its wide result unchanged.
Untruncated(wide, returned) ==
  /\ (returned.status = "Ok") => (Cmp(wide, U64MAX) <= 0 /\ Cmp(Big(returned.value), wide) = 0)
  /\ (wide \notin {NONE, PANIC} /\ Cmp(wide, U64MAX) > 0) => returned.status # "Ok"

StrategiesAgree ==
  created =>
    \A step \in StrategySteps :
      (PrimaryStrategy(step) # NONE /\ FallbackStrategy(step) # NONE) =>
        Cmp(PrimaryStrategy(step), FallbackStrategy(step)) = 0

\* Meme amounts of 64 bits for the inverse solver: gamma_m and 10^18.
RetryAmounts == { Big(690000000), Pow(<<10>>, 18) }

\* The most retries of compute_a: 100^38 is the last scale of 256 bits.
MaxRetries == 38

\* The terms of the inverse solver on the curve of the pool at its quote reserve.
PoolU == delta_s_u(pool.config.alpha_abs, pool.config.beta,
                   pool.config.decimals.alpha, pool.config.decimals.beta,
                   Big(pool.quote_reserve))
PoolV == delta_s_v(pool.config.decimals.alpha, pool.config.decimals.beta)
PoolW(delta_m) == delta_s_w(pool.config.alpha_abs, delta_m)

\* The attempt of compute_a after k retries.
Attempt(delta_m, k) ==
  compute_a_result(PoolU, pool.config.decimals.alpha, PoolW(delta_m), PoolV, Pow(<<100>>, k))

TableScales == 0..20

\* The numerator of the slope of a deployment,
\* 2 * (gamma_m - floor(omega_m * num / denom)) * mint_decimals^2.
SlopeNumerator(d) ==
  Mul(Big(2 * (d.gamma_m - (d.omega_m * d.price_factor_num) \div d.price_factor_denom)),
      Pow(<<10>>, 2 * d.quote_decimals))

\* The denominator of the slope of a deployment, gamma_s^2.
SlopeDenominator(d) == Mul(Big(d.token_target_amount), Big(d.token_target_amount))

\* net_scale: the decimal digits of the numerator less those of the denominator.
NetScale(d) == Digits(SlopeNumerator(d)) - Digits(SlopeDenominator(d))

\* The precision of a net scale of 5 or more: 10^(13 - net_scale), 1 above 12.
TablePrecision(net_scale) ==
  IF net_scale > 12 THEN <<1>> ELSE Pow(<<10>>, 13 - net_scale)

\* C23: compute_decimals fails for the net scales 0..4, gives 10^8 for 5 down
\* to 10 for 12 and 1 above 12; a new_pool that passed the slope check and
\* the limit of gamma_s fails with EScaleTooLow exactly when the net scale
\* of its numerator and denominator is below 5, and otherwise stores the
\* precision of the table with alpha_abs = floor(num * precision / denom).
PrecisionTable ==
  /\ \A scale \in TableScales :
       compute_decimals(scale) = IF scale <= 4 THEN NONE ELSE TablePrecision(scale)
  /\ (last.op = "new_pool" /\ last.result \in {"Ok", "EScaleTooLow"}) =>
       /\ (last.result = "EScaleTooLow") <=> (NetScale(last.dep) <= 4)
       /\ (last.result = "Ok") =>
            /\ Cmp(pool.config.decimals.alpha, TablePrecision(NetScale(last.dep))) = 0
            /\ Cmp(pool.config.alpha_abs,
                   Div(Mul(SlopeNumerator(last.dep), TablePrecision(NetScale(last.dep))),
                       SlopeDenominator(last.dep))) = 0

\* A pool created at net scale 5, with the precision 10^8.
PrecisionTableReached ==
  /\ created /\ last.op = "new_pool" /\ last.result = "Ok"
  /\ NetScale(last.dep) = 5
  /\ pool.config.decimals.alpha = Big(100000000)

\* The meme tokens held by the first n tickets.
RECURSIVE TicketTotal(_)
TicketTotal(n) == IF n = 0 THEN 0 ELSE tickets[n].amount + TicketTotal(n - 1)

\* The meme tokens held by the first n property stakes.
RECURSIVE StakeTotal(_)
StakeTotal(n) == IF n = 0 THEN 0 ELSE stakes[n].stake_amount + StakeTotal(n - 1)

\* C24, as the code has it: in a created pool the meme reserve, the meme fees
\* and the amounts of all tickets and of all property stakes add up to
\* gamma_m.
MemeConservation ==
  created =>
    pool.meme_reserve + pool.admin_fees_meme
      + TicketTotal(Len(tickets)) + StakeTotal(Len(stakes)) = pool.config.gamma_m

\* C24, as stated: the meme reserve, the meme fees and the amounts of all
\* tickets add up to gamma_m.
MemeConservationByTickets ==
  created =>
    pool.meme_reserve + pool.admin_fees_meme + TicketTotal(Len(tickets))
      = pool.config.gamma_m

\* A pool after an accepted sell that charged a meme fee, with a property
\* stake and a ticket outstanding.
MemeConservationReached ==
  /\ created /\ last.op = "swap_x" /\ last.result = "Ok"
  /\ last.amt.admin_fee_in > 0
  /\ Len(stakes) > 0 /\ StakeTotal(Len(stakes)) > 0
  /\ TicketTotal(Len(tickets)) > 0

\* C25: the quote transferred into the vault by buys (amount_in +
\* admin_fee_in each) less the quote transferred out to sellers (amount_out
\* each) equals the quote reserve plus the quote fees.
QuoteConservation ==
  quote_vault = pool.quote_reserve + pool.admin_fees_quote

\* A pool after an accepted sell that charged a quote fee, the buys before
\* it having paid a quote fee as well.
QuoteConservationReached ==
  /\ created /\ last.op = "swap_x" /\ last.result = "Ok"
  /\ last.amt.amount_out > 0 /\ last.amt.admin_fee_out > 0
  /\ pool.admin_fees_quote > last.amt.admin_fee_out
  /\ quote_vault > 0

\* Curve amounts and price factors the two checks are compared on.
CheckAmounts == {0, 1, 2, 310000000, 690000000}
CheckFactors == {0, 1, 3}

====
